---- MODULE Spec2Model ----
(***************************************************************************)
(* A model of the justodo extension: the three commands (create a TODO,    *)
(* mark a TODO done, search the TODOs of a file) acting on the lines of    *)
(* the open documents and on the workspace's .todos/todos.json log.        *)
(*                                                                         *)
(* Text is modelled character by character: a line, a comment marker and   *)
(* an identifier are sequences of one-character strings, so that the       *)
(* regular expression of the line parser and the formatting of the        *)
(* identifier are computed, not assumed.                                   *)
(***************************************************************************)
EXTENDS Integers, Sequences, FiniteSets, TLC

(***************************************************************************)
(* Text helpers                                                            *)
(***************************************************************************)
Digit == {"0", "1", "2", "3", "4", "5", "6", "7", "8", "9"}

\* \s of the regular expression, and the characters String.trim removes
IsWs(c) == c \in {" ", "\t"}

\* the i-th character of s, or a value no pattern matches past the end
At(s, i) == IF i \in 1..Len(s) THEN s[i] ELSE "<eol>"

\* s from position i (1-based) to its end
From(s, i) == SubSeq(s, i, Len(s))

\* lit occurs in s starting at position i
HasAt(s, i, lit) ==
    /\ i + Len(lit) - 1 <= Len(s)
    /\ \A k \in 1..Len(lit) : s[i + k - 1] = lit[k]

\* the first position >= i of s that holds no whitespace (Len(s)+1 if none)
RECURSIVE SkipWs(_, _)
SkipWs(s, i) == IF i <= Len(s) /\ IsWs(s[i]) THEN SkipWs(s, i + 1) ELSE i

RECURSIVE TrimStart(_)
TrimStart(s) == IF s # <<>> /\ IsWs(Head(s)) THEN TrimStart(Tail(s)) ELSE s

RECURSIVE TrimEnd(_)
TrimEnd(s) ==
    IF s # <<>> /\ IsWs(s[Len(s)]) THEN TrimEnd(SubSeq(s, 1, Len(s) - 1)) ELSE s

\* String.prototype.trim
Trim(s) == TrimEnd(TrimStart(s))

\* String(n) for a natural number n
DigitOf(d) == <<"0", "1", "2", "3", "4", "5", "6", "7", "8", "9">>[d + 1]

RECURSIVE DecStr(_)
DecStr(n) == IF n < 10 THEN <<DigitOf(n)>> ELSE DecStr(n \div 10) \o <<DigitOf(n % 10)>>

\* a variant that pads nothing
PadStartNone(s, len) == s

\* String.prototype.padStart(len, "0")
RECURSIVE PadStart(_, _)
PadStart(s, len) == IF Len(s) >= len THEN s ELSE PadStart(<<"0">> \o s, len)

(***************************************************************************)
(* Comment Grammar Table                                                   *)
(***************************************************************************)
Slashes == <<"/", "/">>
Hash    == <<"#">>
Html    == <<"<", "!", "-", "-">>
Block   == <<"/", "*">>
Dashes  == <<"-", "-">>
Semi    == <<";">>
Rem     == <<"R", "E", "M">>

commentMap ==
    [javascript |-> Slashes, typescript |-> Slashes, python |-> Hash,
     java |-> Slashes, c |-> Slashes, cpp |-> Slashes, csharp |-> Slashes,
     go |-> Slashes, rust |-> Slashes, php |-> Slashes, ruby |-> Hash,
     swift |-> Slashes, kotlin |-> Slashes, dart |-> Slashes, html |-> Html,
     css |-> Block, scss |-> Slashes, less |-> Slashes, yaml |-> Hash,
     toml |-> Hash, json |-> Slashes, jsonc |-> Slashes, xml |-> Html,
     markdown |-> Html, shellscript |-> Hash, powershell |-> Hash,
     bat |-> Rem, sql |-> Dashes, lua |-> Dashes, perl |-> Hash, r |-> Hash,
     vue |-> Slashes, svelte |-> Slashes, coffeescript |-> Hash,
     dockerfile |-> Hash, makefile |-> Hash, ini |-> Semi]

\* commentMap is an object literal: a key it does not define is looked up in
\* Object.prototype. What is found there is truthy, so it is what the lookup
\* returns; it is given here as the text a template string turns it into.
ObjectPrototype ==
    ("constructor" :> <<"f", "u", "n", "c", "t", "i", "o", "n", " ", "O", "b", "j", "e", "c", "t", "(", ")", " ", "{", " ", "[", "n", "a", "t", "i", "v", "e", " ", "c", "o", "d", "e", "]", " ", "}">>)
    @@ ("__proto__" :> <<"[", "o", "b", "j", "e", "c", "t", " ", "O", "b", "j", "e", "c", "t", "]">>)

\* commentMap[languageId] || '//'
getCommentSymbol(languageId) ==
    IF languageId \in DOMAIN commentMap THEN commentMap[languageId]
    ELSE IF languageId \in DOMAIN ObjectPrototype THEN ObjectPrototype[languageId]
    ELSE Slashes

(***************************************************************************)
(* Identifier Generator                                                    *)
(***************************************************************************)
\* a Date is a record of its local-time fields; getMonth() is 0-based
getGeneratedHUID(now) ==
    LET yyyy == DecStr(now.year)
        mm   == PadStart(DecStr(now.month + 1), 2)
        dd   == PadStart(DecStr(now.date), 2)
        hh   == PadStart(DecStr(now.hours), 2)
        min  == PadStart(DecStr(now.minutes), 2)
        ss   == PadStart(DecStr(now.seconds), 2)
    IN  yyyy \o mm \o dd \o <<"-">> \o hh \o min \o ss

(***************************************************************************)
(* Line Parser                                                             *)
(***************************************************************************)
\* The comment symbol is pasted into the pattern unescaped, so it is read
\* as a regular expression: a character followed by * is "zero or more".
RECURSIVE SymbolAtoms(_)
SymbolAtoms(sym) ==
    IF sym = <<>> THEN <<>>
    ELSE IF Len(sym) >= 2 /\ sym[2] = "*"
         THEN <<[ch |-> sym[1], star |-> TRUE]>> \o SymbolAtoms(From(sym, 3))
         ELSE <<[ch |-> sym[1], star |-> FALSE]>> \o SymbolAtoms(Tail(sym))

\* the positions of s at which c* may stop when started at position i
RECURSIVE StarEnds(_, _, _)
StarEnds(s, i, c) == {i} \cup (IF At(s, i) = c THEN StarEnds(s, i + 1, c) ELSE {})

\* the positions at which the atoms may stop when started at a position of ps
RECURSIVE MatchAtoms(_, _, _)
MatchAtoms(atoms, s, ps) ==
    IF atoms = <<>> THEN ps
    ELSE LET a == Head(atoms)
             next == IF a.star
                     THEN UNION {StarEnds(s, i, a.ch) : i \in ps}
                     ELSE {i + 1 : i \in {j \in ps : At(s, j) = a.ch}}
         IN  MatchAtoms(Tail(atoms), s, next)

Todo4 == <<"T", "O", "D", "O">>

\* [0-9]{8}-[0-9]{6} at position i of s
IsHuidAt(s, i) ==
    /\ i + 14 <= Len(s)
    /\ \A k \in 0..7 : s[i + k] \in Digit
    /\ s[i + 8] = "-"
    /\ \A k \in 9..14 : s[i + k] \in Digit

\* String.prototype.match found nothing
NoMatch == [matched |-> FALSE]

\* ^\s*<symbol>\s*TODO(?:<([0-9]{8}-[0-9]{6})>)?:\s*(.+)$ matched on lineText
RegexMatch(commentSymbol, lineText) ==
    LET afterSym  == MatchAtoms(SymbolAtoms(commentSymbol), lineText, {SkipWs(lineText, 1)})
        afterTodo == {SkipWs(lineText, i) + 4 : i \in {j \in afterSym : HasAt(lineText, SkipWs(lineText, j), Todo4)}}
    IN  IF afterTodo = {} THEN NoMatch
        ELSE LET t      == CHOOSE i \in afterTodo : \A j \in afterTodo : i <= j
                 hasId  == /\ At(lineText, t) = "<"
                           /\ IsHuidAt(lineText, t + 1)
                           /\ At(lineText, t + 16) = ">"
                 colon  == IF hasId THEN t + 17 ELSE t
                 rest   == From(lineText, colon + 1)
                 ws     == SkipWs(rest, 1) - 1
                 \* \s* gives back one character when nothing else is left for (.+)
                 taken  == IF ws = Len(rest) THEN ws - 1 ELSE ws
             IN  IF At(lineText, colon) # ":" \/ rest = <<>> THEN NoMatch
                 ELSE [matched |-> TRUE,
                       g1 |-> IF hasId THEN SubSeq(lineText, t + 1, t + 15) ELSE <<>>,
                       hasG1 |-> hasId,
                       g2 |-> From(rest, taken + 1)]

Null      == [t |-> "null"]
Undefined == [t |-> "undefined"]

\* Editor.parseTodoAtLine on the text of the line; an identifier that is not
\* there (undefined) is the empty text
parseTodoAtLine(languageId, lineText) ==
    LET match == RegexMatch(getCommentSymbol(languageId), lineText)
    IN  IF ~match.matched THEN Null
        ELSE [heading |-> Trim(match.g2),
              hasUID |-> match.hasG1,
              existingUID |-> match.g1]

(***************************************************************************)
(* Bounds and inputs                                                       *)
(***************************************************************************)
\* commands the user triggers in one run of the model
MaxRuns == 2

\* command handlers that may be in flight at once (nothing serialises them)
Slot == {1, 2}

\* the open documents: two of the workspace folder and one outside of it
File == {"f1", "f2", "f3"}

\* vscode.workspace.getWorkspaceFolder(document.uri) || null
Workspacefolder(f) == IF f = "f3" THEN Null ELSE [uri |-> "ws"]

\* the wall clock: the instants at which the model reads it
Times ==
    << [year |-> 2025, month |-> 11, date |-> 8, hours |-> 16, minutes |-> 15, seconds |-> 30, ms |-> 0],
       [year |-> 2025, month |-> 11, date |-> 8, hours |-> 16, minutes |-> 15, seconds |-> 31, ms |-> 0] >>

\* the language of the first file in the runs in which commands overlap
LangSample == {"javascript"}

\* one language for each comment marker of the table, and one the table lacks
LangAll == {"javascript", "python", "html", "css", "sql", "ini", "bat", "plaintext"}

HeadA == <<"f", "a">>
HeadB == <<"f", "b">>
OldUid == <<"2","0","2","5","1","2","0","7","-","0","9","0","0","0","0">>

\* the document a run starts from: a TODO awaiting an identifier (with
\* trailing blanks), an indented TODO carrying an identifier given on an
\* earlier day, and a TODO with no comment marker in front
DocFor(languageId) ==
    LET m == getCommentSymbol(languageId)
    IN  << m \o <<" ">> \o Todo4 \o <<":", " ">> \o HeadA \o <<" ">>,
           <<" ">> \o m \o Todo4 \o <<"<">> \o OldUid \o <<">", ":">> \o HeadB,
           Todo4 \o <<":", " ">> \o HeadA >>

(***************************************************************************)
(* The log document                                                        *)
(***************************************************************************)
Absent  == [t |-> "absent"]
Corrupt == [t |-> "text", json |-> FALSE]

\* JSON.stringify of a Date is its ISO string; new Date(iso) reads it back
ToISOString(date) == [iso |-> date]
DateOfISO(str) == str.iso

\* JSON.stringify({ todos: [] }, null, 4)
SeedText == [t |-> "text", json |-> TRUE, value |-> [todos |-> <<>>]]

\* JSON.stringify of the log object: the Date of a new entry becomes a string
StringifyEntry(e) ==
    [k \in DOMAIN e |-> IF k = "createdAt" /\ "iso" \notin DOMAIN e[k]
                        THEN ToISOString(e[k]) ELSE e[k]]

StringifyGroup(g) == [f \in DOMAIN g |-> [h \in DOMAIN g[f] |-> StringifyEntry(g[f][h])]]

JsonStringify(todosJson) ==
    [t |-> "text", json |-> TRUE,
     value |-> [k \in DOMAIN todosJson |->
                   [i \in 1..Len(todosJson[k]) |-> StringifyGroup(todosJson[k][i])]]]

\* the log an earlier session left: the entry of the TODO on the second line
OldDay == [year |-> 2025, month |-> 11, date |-> 7, hours |-> 9, minutes |-> 0, seconds |-> 0, ms |-> 0]
OldLogText ==
    [t |-> "text", json |-> TRUE,
     value |-> [todos |-> << "f1" :> (OldUid :>
                   [heading |-> HeadB, done |-> FALSE, line |-> 2,
                    createdAt |-> ToISOString(OldDay), markedAt |-> Null]) >>]]

\* the log of an earlier session that also recorded a TODO on the third
\* line of the second file, which has a single line now
StaleLogText ==
    [t |-> "text", json |-> TRUE,
     value |-> [todos |-> << "f1" :> (OldUid :>
                   [heading |-> HeadB, done |-> FALSE, line |-> 2,
                    createdAt |-> ToISOString(OldDay), markedAt |-> Null]),
                             "f2" :> (OldUid :>
                   [heading |-> HeadA, done |-> FALSE, line |-> 3,
                    createdAt |-> ToISOString(OldDay), markedAt |-> Null]) >>]]

\* a document in which two Creates of one second gave the first two lines
\* the same identifier, and two TODOs still await theirs
DocDup ==
    << Slashes \o <<" ">> \o Todo4 \o <<"<">> \o OldUid \o <<">", ":", " ">> \o HeadA,
       Slashes \o <<" ">> \o Todo4 \o <<"<">> \o OldUid \o <<">", ":", " ">> \o HeadB,
       Slashes \o <<" ">> \o Todo4 \o <<":", " ">> \o HeadA \o <<" ">>,
       Slashes \o Todo4 \o <<":">> \o HeadB >>

\* the log those two Creates left: two elements under one path and identifier
DupLogText ==
    [t |-> "text", json |-> TRUE,
     value |-> [todos |-> << "f1" :> (OldUid :>
                   [heading |-> HeadA, done |-> FALSE, line |-> 1,
                    createdAt |-> ToISOString(OldDay), markedAt |-> Null]),
                             "f1" :> (OldUid :>
                   [heading |-> HeadB, done |-> FALSE, line |-> 2,
                    createdAt |-> ToISOString(OldDay), markedAt |-> Null]) >>]]

\* Todo.readJson: readFile then JSON.parse; either may throw
Throws == [threw |-> TRUE]

\* a variant that reads a missing or broken document as an empty log
readJsonLenient(file) ==
    IF file = Absent \/ ~file.json THEN [threw |-> FALSE, value |-> [todos |-> <<>>]]
    ELSE [threw |-> FALSE, value |-> file.value]

readJson(file) ==
    IF file = Absent \/ ~file.json THEN Throws
    ELSE [threw |-> FALSE, value |-> file.value]

\* a key is there and its value is truthy (an object always is)
Has(obj, key) == key \in DOMAIN obj

\* a variant that looks at the file path only
FirstMatchAnyHuid(todos, filePath, huid) ==
    LET hits == {i \in 1..Len(todos) : Has(todos[i], filePath)}
    IN  IF hits = {} THEN 0 ELSE CHOOSE i \in hits : \A j \in hits : i <= j

\* the first element of todos that holds huid under filePath, or 0
FirstMatch(todos, filePath, huid) ==
    LET hits == {i \in 1..Len(todos) : Has(todos[i], filePath) /\ Has(todos[i][filePath], huid)}
    IN  IF hits = {} THEN 0 ELSE CHOOSE i \in hits : \A j \in hits : i <= j

\* a variant that pushes nothing when the pair is already there
addTodoOnce(todosJson, todo_data) ==
    LET todos == IF Has(todosJson, "todos") THEN todosJson.todos ELSE <<>>
        todo_to_add ==
            todo_data.filePath :>
                (todo_data.huid :>
                    [heading   |-> todo_data.heading,
                     done      |-> todo_data.done,
                     line      |-> todo_data.line,
                     createdAt |-> todo_data.createdAt,
                     markedAt  |-> Null])
        hits == {i \in 1..Len(todos) : Has(todos[i], todo_data.filePath)
                                        /\ Has(todos[i][todo_data.filePath], todo_data.huid)}
    IN  [todos |-> IF hits = {} THEN Append(todos, todo_to_add) ELSE todos]

\* a variant that pushes nothing
addTodoNoPush(todosJson, todo_data) ==
    [todos |-> IF Has(todosJson, "todos") THEN todosJson.todos ELSE <<>>]

\* Todo.addTodo between its read and its write: the object it writes back
addTodo(todosJson, todo_data) ==
    LET todos == IF Has(todosJson, "todos") THEN todosJson.todos ELSE <<>>
        todo_to_add ==
            todo_data.filePath :>
                (todo_data.huid :>
                    [heading   |-> todo_data.heading,
                     done      |-> todo_data.done,
                     line      |-> todo_data.line,
                     createdAt |-> todo_data.createdAt,
                     markedAt  |-> Null])
    IN  [todos |-> Append(todos, todo_to_add)]

\* a variant that stamps the creation time as well
MarkEntryRestamping(e, now) ==
    [k \in DOMAIN e \cup {"modifiedAt"} |->
        IF k = "done" THEN TRUE
        ELSE IF k \in {"modifiedAt", "createdAt"} THEN ToISOString(now)
        ELSE e[k]]

\* a variant that moves the stored line up by one
MarkEntryRenumbering(e, now) ==
    [k \in DOMAIN e \cup {"modifiedAt"} |->
        IF k = "done" THEN TRUE
        ELSE IF k = "modifiedAt" THEN ToISOString(now)
        ELSE IF k = "line" THEN e[k] - 1
        ELSE e[k]]

\* the entry as Todo.markTodoAsDone leaves it: done, and stamped modifiedAt
MarkEntry(e, now) ==
    [k \in DOMAIN e \cup {"modifiedAt"} |->
        IF k = "done" THEN TRUE
        ELSE IF k = "modifiedAt" THEN ToISOString(now)
        ELSE e[k]]

\* a variant that records a completion it finds no entry for
markTodoAsDoneUpserting(todosJson, filePath, huid, now) ==
    IF ~Has(todosJson, "todos") THEN Throws
    ELSE LET todos == todosJson.todos
             i == FirstMatch(todos, filePath, huid)
         IN  [threw |-> FALSE,
              value |-> IF i = 0
                        THEN [todos |-> Append(todos, filePath :> (huid :>
                                [done |-> TRUE, modifiedAt |-> ToISOString(now)]))]
                        ELSE [todosJson EXCEPT !.todos[i][filePath][huid] = MarkEntry(@, now)]]

\* a variant that takes the completed element out of the sequence
markTodoAsDoneRemoving(todosJson, filePath, huid, now) ==
    IF ~Has(todosJson, "todos") THEN Throws
    ELSE LET todos == todosJson.todos
             i == FirstMatch(todos, filePath, huid)
         IN  [threw |-> FALSE,
              value |-> IF i = 0 THEN todosJson
                        ELSE [todos |-> SubSeq(todos, 1, i - 1) \o SubSeq(todos, i + 1, Len(todos))]]

\* Todo.markTodoAsDone between its read and its write; iterating a missing
\* todos field throws
markTodoAsDone(todosJson, filePath, huid, now) ==
    IF ~Has(todosJson, "todos") THEN Throws
    ELSE LET todos == todosJson.todos
             i == FirstMatch(todos, filePath, huid)
         IN  [threw |-> FALSE,
              value |-> IF i = 0 THEN todosJson
                        ELSE [todosJson EXCEPT !.todos[i][filePath][huid] = MarkEntry(@, now)]]

\* a variant whose catch answers true
HuidExistsOnThrow(read, filePath, huid) ==
    IF read.threw THEN TRUE
    ELSE IF ~Has(read.value, "todos") THEN FALSE
    ELSE FirstMatch(read.value.todos, filePath, huid) # 0

\* Todo.HuidExists on what it read
HuidExists(read, filePath, huid) ==
    IF read.threw \/ ~Has(read.value, "todos") THEN FALSE
    ELSE FirstMatch(read.value.todos, filePath, huid) # 0

\* the keys of an object in the order for..in visits them; every grouping the
\* program writes has one key
RECURSIVE KeySeq(_)
KeySeq(keys) ==
    IF keys = {} THEN <<>>
    ELSE LET k == CHOOSE x \in keys : TRUE IN <<k>> \o KeySeq(keys \ {k})

\* a variant that keeps the stored 1-based line
ItemOfNoShift(huid, filePathStr, todoData) ==
    [huid      |-> huid,
     heading   |-> todoData.heading,
     filePath  |-> filePathStr,
     line      |-> todoData.line,
     done      |-> todoData.done,
     createdAt |-> DateOfISO(todoData.createdAt),
     markedAt  |-> IF Has(todoData, "markedAt") /\ todoData.markedAt # Null
                   THEN DateOfISO(todoData.markedAt) ELSE Undefined]

\* the TodoItem getTodosInFile builds from a stored entry
ItemOf(huid, filePathStr, todoData) ==
    [huid      |-> huid,
     heading   |-> todoData.heading,
     filePath  |-> filePathStr,
     line      |-> todoData.line - 1,
     done      |-> todoData.done,
     createdAt |-> DateOfISO(todoData.createdAt),
     markedAt  |-> IF Has(todoData, "markedAt") /\ todoData.markedAt # Null
                   THEN DateOfISO(todoData.markedAt) ELSE Undefined]

RECURSIVE ItemsOfGroup(_, _, _)
ItemsOfGroup(fileTodos, filePathStr, huids) ==
    IF huids = <<>> THEN <<>>
    ELSE <<ItemOf(Head(huids), filePathStr, fileTodos[Head(huids)])>>
         \o ItemsOfGroup(fileTodos, filePathStr, Tail(huids))

RECURSIVE ItemsOfTodos(_, _)
ItemsOfTodos(todos, filePathStr) ==
    IF todos = <<>> THEN <<>>
    ELSE (IF Has(Head(todos), filePathStr)
          THEN ItemsOfGroup(Head(todos)[filePathStr], filePathStr,
                            KeySeq(DOMAIN Head(todos)[filePathStr]))
          ELSE <<>>)
         \o ItemsOfTodos(Tail(todos), filePathStr)

\* Todo.getTodosInFile on what it read: [] on any failure
getTodosInFile(read, filePathStr) ==
    IF read.threw \/ ~Has(read.value, "todos") THEN <<>>
    ELSE ItemsOfTodos(read.value.todos, filePathStr)

\* a variant that labels every item as pending
QuickPickItemPending(todo) ==
    [label       |-> <<"circle-outline", todo.heading>>,
     description |-> todo.huid,
     detail      |-> <<"Created At", todo.createdAt>>,
     line        |-> todo.line]

\* Todo.getTodosQuickPickItems: one item per TodoItem
QuickPickItem(todo) ==
    [label       |-> <<IF todo.done THEN "check" ELSE "circle-outline", todo.heading>>,
     description |-> todo.huid,
     detail      |-> IF todo.done
                     THEN <<"Marked At", IF todo.markedAt # Undefined THEN todo.markedAt ELSE todo.createdAt,
                            "Line", todo.line + 1>>
                     ELSE <<"Created At", todo.createdAt>>,
     line        |-> todo.line]

getTodosQuickPickItems(todosInFile) ==
    [i \in 1..Len(todosInFile) |-> QuickPickItem(todosInFile[i])]

(***************************************************************************)
(* Editor                                                                  *)
(***************************************************************************)
\* the text a successful replace of line (0-based) leaves
ReplaceLine(lines, line, newText) == [lines EXCEPT ![line + 1] = newText]

\* the text a successful delete of rangeIncludingLineBreak leaves: the last
\* line has no line break, so only its text goes
DeleteLine(lines, line) ==
    IF line + 1 < Len(lines)
    THEN SubSeq(lines, 1, line) \o SubSeq(lines, line + 2, Len(lines))
    ELSE [lines EXCEPT ![line + 1] = <<>>]

\* where the host leaves a cursor when the line at index line is deleted
CursorAfterDelete(lines, line, cur) ==
    IF line + 1 < Len(lines) /\ cur > line THEN cur - 1 ELSE cur

(***************************************************************************)
(* State                                                                   *)
(***************************************************************************)
VARIABLES
    languageId,  \* document.languageId of each open file
    doc,         \* the lines of each open file's document
    cursor,      \* editor.selection.active.line of each file's editor (0-based)
    fs,          \* the workspace storage: is .todos there, and todos.json
    clock,       \* the wall clock, a position in Times
    cmd,         \* the command handler running in each slot, with its locals
    started      \* commands triggered so far

vars == <<languageId, doc, cursor, fs, clock, cmd, started>>

Now == Times[clock]

\* a slot before any command ran in it
Idle ==
    [kind |-> "none", pc |-> "idle", file |-> "", currentLine |-> 0,
     heading |-> <<>>, huid |-> <<>>, createdAt |-> Undefined,
     edited |-> "unset", todosJson |-> Undefined, todosInFile |-> <<>>,
     items |-> <<>>, selected |-> 0, notes |-> <<>>,
     \* history, for stating before/after properties: the document text and
     \* the storage at the moment the command was triggered
     before |-> Undefined]

Kind == {"create", "complete", "search"}

\* the messages the commands show
ErrNoTodo      == "error: No TODO found on the current line."
InfoHasHuid    == "info: TODO already has HUID"
ErrUpdate      == "error: Failed to update the TODO line."
InfoAdded      == "info: Added HUID to the TODO."
ErrWriting     == "error: Error writing TODO to JSON"
ErrNoHuid      == "error: This TODO does not have a HUID."
ErrNotFound    == "error: No TODO found with HUID"
ErrMarking     == "error: Error marking TODO as done"
InfoMarked     == "info: Marked TODO as done."
InfoNoTodos    == "info: No TODOs found"

InitWith(langs, stores) ==
    /\ languageId \in {l \in [File -> langs \cup {"python"}] : l["f1"] \in langs /\ l["f2"] = "python" /\ l["f3"] = "python"}
    /\ doc = [f \in File |-> IF f = "f1" THEN DocFor(languageId[f])
                             ELSE SubSeq(DocFor(languageId[f]), 1, 1)]
    /\ cursor \in [File -> {0}]
    /\ fs \in stores
    /\ clock = 1
    /\ cmd = [p \in Slot |-> Idle]
    /\ started = 0

\* a workspace never used, and one with the log of an earlier session
Fresh  == [folder |-> FALSE, file |-> Absent]
Used   == [folder |-> TRUE, file |-> OldLogText]
\* a log just seeded, and one that is not JSON any more
Seeded == [folder |-> TRUE, file |-> SeedText]
Broken == [folder |-> TRUE, file |-> Corrupt]
\* a log with an entry whose line the document no longer has
Stale  == [folder |-> TRUE, file |-> StaleLogText]
\* the log of a session in which two Creates fell into one second
Dup    == [folder |-> TRUE, file |-> DupLogText]

Init == InitWith(LangSample, {Fresh, Used})

\* the runs that follow a session with two Creates in one second (or start
\* after the storage folder was removed), one command at a time
InitDup ==
    /\ languageId = [f \in File |-> IF f = "f1" THEN "javascript" ELSE "python"]
    /\ doc = [f \in File |-> IF f = "f1" THEN DocDup
                             ELSE SubSeq(DocFor(languageId[f]), 1, 1)]
    /\ cursor \in [File -> {0}]
    /\ fs \in {Fresh, Dup}
    /\ clock = 1
    /\ cmd = [p \in Slot |-> Idle]
    /\ started = 0

\* the runs over every comment marker, one command at a time
InitAll == InitWith(LangAll, {Fresh, Used, Seeded, Broken, Stale})

Step(p, c) == cmd' = [cmd EXCEPT ![p] = c]
Note(c, msg) == [c EXCEPT !.notes = Append(@, msg)]
Goto(c, pc) == [c EXCEPT !.pc = pc]
Finish(c) == Goto(c, "done")

(***************************************************************************)
(* The user and the clock                                                  *)
(***************************************************************************)
\* a slot with no handler running in it
Free(p) == cmd[p].pc \in {"idle", "done", "crashed"}

\* the user triggers a command while the editor of file f is the active one;
\* the handler takes the first free slot
Start(p, kind, f) ==
    /\ Free(p)
    /\ \A q \in Slot : q < p => ~Free(q)
    /\ started < MaxRuns
    /\ started' = started + 1
    /\ Step(p, [Idle EXCEPT !.kind = kind, !.file = f, !.pc = "statFolder",
                             !.before = [doc |-> doc, fs |-> fs]])
    /\ UNCHANGED <<languageId, doc, cursor, fs, clock>>

MoveCursor(f, line) ==
    /\ line \in 0..(Len(doc[f]) - 1)
    /\ line # cursor[f]
    /\ cursor' = [cursor EXCEPT ![f] = line]
    /\ UNCHANGED <<languageId, doc, fs, clock, cmd, started>>

Tick ==
    /\ clock < Len(Times)
    /\ clock' = clock + 1
    /\ UNCHANGED <<languageId, doc, cursor, fs, cmd, started>>

(***************************************************************************)
(* Workspace: TodoManager.init                                             *)
(***************************************************************************)
\* getTodosFolder: throw without a workspace folder (nothing catches it, the
\* handler's promise rejects), else stat .todos
StatFolder(p) ==
    /\ cmd[p].pc = "statFolder"
    /\ Step(p, Goto(cmd[p], IF Workspacefolder(cmd[p].file) = Null THEN "crashed"
                            ELSE IF fs.folder THEN "statJson" ELSE "mkdir"))
    /\ UNCHANGED <<languageId, doc, cursor, fs, clock, started>>

\* getTodosFolder: createDirectory after the stat failed; it may throw, and
\* nothing catches that
CreateDirectory(p) ==
    /\ cmd[p].pc = "mkdir"
    /\ \E ioOk \in BOOLEAN :
        IF ioOk
        THEN /\ fs' = [fs EXCEPT !.folder = TRUE]
             /\ Step(p, Goto(cmd[p], "statJson"))
        ELSE /\ UNCHANGED fs
             /\ Step(p, Goto(cmd[p], "crashed"))
    /\ UNCHANGED <<languageId, doc, cursor, clock, started>>

\* a variant that writes the empty log without looking
JsonMissingAlways(file) == TRUE

\* getTodosJsonUri: the stat of todos.json throws
JsonMissing(file) == file = Absent

\* getTodosJsonUri: stat todos.json
StatJson(p) ==
    /\ cmd[p].pc = "statJson"
    /\ Step(p, Goto(cmd[p], IF JsonMissing(fs.file) THEN "seed" ELSE "ready"))
    /\ UNCHANGED <<languageId, doc, cursor, fs, clock, started>>

\* getTodosJsonUri: write the empty log after the stat failed; the write may
\* throw, and nothing catches that
WriteSeed(p) ==
    /\ cmd[p].pc = "seed"
    /\ \E ioOk \in BOOLEAN :
        IF ioOk
        THEN /\ fs' = [fs EXCEPT !.file = SeedText]
             /\ Step(p, Goto(cmd[p], "ready"))
        ELSE /\ UNCHANGED fs
             /\ Step(p, Goto(cmd[p], "crashed"))
    /\ UNCHANGED <<languageId, doc, cursor, clock, started>>

(***************************************************************************)
(* TodoManager.createTodo                                                  *)
(***************************************************************************)
\* a variant that always writes the marker of the C family
NewLineSlashes(languageId_, huid, heading) ==
    Slashes \o <<" ">> \o Todo4 \o <<"<">> \o huid \o <<">", ":", " ">> \o heading

\* the line createTodo writes
NewLine(languageId_, huid, heading) ==
    getCommentSymbol(languageId_) \o <<" ">> \o Todo4 \o <<"<">> \o huid \o <<">", ":", " ">> \o heading

\* the TodoItem createTodo hands to addTodo
TodoData(c, now) ==
    [huid |-> c.huid, heading |-> c.heading, filePath |-> c.file,
     line |-> c.currentLine + 1, done |-> FALSE, createdAt |-> now]

\* a variant that does not look for an identifier already there
CreateBranchNoUidCheck(parsedTodo) ==
    IF parsedTodo = Null THEN "nomatch" ELSE "assign"

\* what createTodo does with the parsed line
CreateBranch(parsedTodo) ==
    IF parsedTodo = Null THEN "nomatch"
    ELSE IF parsedTodo.hasUID THEN "hasuid"
    ELSE "assign"

\* a variant that does not look at what the edit resolved to
AddsAlways(lineUpdated) == TRUE

\* createTodo goes on to addTodo only if the edit resolved true
AddsAfterUpdate(lineUpdated) == lineUpdated

\* init has returned: read the cursor line, parse it and, for a TODO without
\* identifier, ask the editor to replace the line; the edit is applied (ok)
\* or refused by the host
CreateParse(p) ==
    /\ cmd[p].pc = "ready" /\ cmd[p].kind = "create"
    /\ LET f == cmd[p].file
           currentLine == cursor[f]
           parsedTodo == parseTodoAtLine(languageId[f], doc[f][currentLine + 1])
           c0 == [cmd[p] EXCEPT !.currentLine = currentLine]
           branch == CreateBranch(parsedTodo)
       IN  IF branch = "nomatch"
           THEN Step(p, Finish(Note(c0, ErrNoTodo))) /\ UNCHANGED doc
           ELSE IF branch = "hasuid"
           THEN /\ Step(p, Finish(Note([c0 EXCEPT !.huid = parsedTodo.existingUID], InfoHasHuid)))
                /\ UNCHANGED doc
           ELSE LET huid == getGeneratedHUID(Now)
                    c1 == [c0 EXCEPT !.huid = huid, !.heading = parsedTodo.heading]
                IN  \E lineUpdated \in BOOLEAN :
                        /\ doc' = IF lineUpdated
                                  THEN [doc EXCEPT ![f] = ReplaceLine(@, currentLine,
                                            NewLine(languageId[f], huid, parsedTodo.heading))]
                                  ELSE doc
                        /\ LET c2 == [c1 EXCEPT !.edited = IF lineUpdated THEN "true" ELSE "false"]
                           IN  IF AddsAfterUpdate(lineUpdated)
                               THEN Step(p, Goto(c2, "addRead"))
                               ELSE Step(p, Finish(Note(c2, ErrUpdate)))
    /\ UNCHANGED <<languageId, cursor, fs, clock, started>>

\* the edit has resolved true: announce the identifier, stamp createdAt and
\* let addTodo read the log (the read or the parse may throw)
AddRead(p) ==
    /\ cmd[p].pc = "addRead"
    /\ \E ioOk \in BOOLEAN :
        LET read == IF ioOk THEN readJson(fs.file) ELSE Throws
            c0 == Note([cmd[p] EXCEPT !.createdAt = Now], InfoAdded)
        IN  IF read.threw
            THEN Step(p, Finish(Note(c0, ErrWriting)))
            ELSE Step(p, Goto([c0 EXCEPT !.todosJson = addTodo(read.value, TodoData(c0, Now))],
                              "addWrite"))
    /\ UNCHANGED <<languageId, doc, cursor, fs, clock, started>>

\* addTodo writes the whole document back (the write may throw)
AddWrite(p) ==
    /\ cmd[p].pc = "addWrite"
    /\ \E ioOk \in BOOLEAN :
        IF ioOk
        THEN /\ fs' = [fs EXCEPT !.file = JsonStringify(cmd[p].todosJson)]
             /\ Step(p, Finish(cmd[p]))
        ELSE /\ UNCHANGED fs
             /\ Step(p, Finish(Note(cmd[p], ErrWriting)))
    /\ UNCHANGED <<languageId, doc, cursor, clock, started>>

(***************************************************************************)
(* TodoManager.markTodoDone                                                *)
(***************************************************************************)
\* what markTodoDone does with the parsed line
CompleteBranch(parsedTodo) ==
    IF parsedTodo = Null THEN "nomatch"
    ELSE IF ~parsedTodo.hasUID THEN "nohuid"
    ELSE "lookup"

\* init has returned: read the cursor line and parse it
CompleteParse(p) ==
    /\ cmd[p].pc = "ready" /\ cmd[p].kind = "complete"
    /\ LET f == cmd[p].file
           currentLine == cursor[f]
           parsedTodo == parseTodoAtLine(languageId[f], doc[f][currentLine + 1])
           c0 == [cmd[p] EXCEPT !.currentLine = currentLine]
           branch == CompleteBranch(parsedTodo)
       IN  IF branch = "nomatch"
           THEN Step(p, Finish(Note(c0, ErrNoTodo)))
           ELSE IF branch = "nohuid"
           THEN Step(p, Finish(Note(c0, ErrNoHuid)))
           ELSE Step(p, Goto([c0 EXCEPT !.huid = parsedTodo.existingUID], "existsRead"))
    /\ UNCHANGED <<languageId, doc, cursor, fs, clock, started>>

\* a variant that puts an empty log in the place of one it cannot read
ExistsReadRepairing(p) ==
    /\ cmd[p].pc = "existsRead"
    /\ \E ioOk \in BOOLEAN :
        LET read == IF ioOk THEN readJson(fs.file) ELSE Throws
            exists == HuidExists(read, cmd[p].file, cmd[p].huid)
        IN  /\ fs' = IF read.threw THEN [fs EXCEPT !.file = SeedText] ELSE fs
            /\ IF ~exists
               THEN Step(p, Finish(Note(cmd[p], ErrNotFound)))
               ELSE Step(p, Goto(cmd[p], "remove"))
    /\ UNCHANGED <<languageId, doc, cursor, clock, started>>

\* HuidExists reads the log; a failed read counts as "not there"
ExistsRead(p) ==
    /\ cmd[p].pc = "existsRead"
    /\ \E ioOk \in BOOLEAN :
        LET read == IF ioOk THEN readJson(fs.file) ELSE Throws
            exists == HuidExists(read, cmd[p].file, cmd[p].huid)
        IN  IF ~exists
            THEN Step(p, Finish(Note(cmd[p], ErrNotFound)))
            ELSE Step(p, Goto(cmd[p], "remove"))
    /\ UNCHANGED <<languageId, doc, cursor, fs, clock, started>>

\* removeTodoLine deletes whatever line is now at index currentLine; what it
\* resolves to (removed) is not looked at; lineAt throws past the last line
RemoveTodoLine(p) ==
    /\ cmd[p].pc = "remove"
    /\ LET f == cmd[p].file
           line == cmd[p].currentLine
       IN  IF line >= Len(doc[f])
           THEN Step(p, Goto(cmd[p], "crashed")) /\ UNCHANGED <<doc, cursor>>
           ELSE \E removed \in BOOLEAN :
                    IF removed
                    THEN /\ doc' = [doc EXCEPT ![f] = DeleteLine(@, line)]
                         /\ cursor' = [cursor EXCEPT ![f] = CursorAfterDelete(doc[f], line, @)]
                         /\ Step(p, Goto([cmd[p] EXCEPT !.edited = "true"], "markRead"))
                    ELSE /\ UNCHANGED <<doc, cursor>>
                         /\ Step(p, Goto([cmd[p] EXCEPT !.edited = "false"], "markRead"))
    /\ UNCHANGED <<languageId, fs, clock, started>>

\* markTodoAsDone reads the log and marks the first matching entry
MarkRead(p) ==
    /\ cmd[p].pc = "markRead"
    /\ \E ioOk \in BOOLEAN :
        LET read == IF ioOk THEN readJson(fs.file) ELSE Throws
            marked == IF read.threw THEN Throws
                      ELSE markTodoAsDone(read.value, cmd[p].file, cmd[p].huid, Now)
        IN  IF marked.threw
            THEN Step(p, Finish(Note(Note(cmd[p], ErrMarking), InfoMarked)))
            ELSE Step(p, Goto([cmd[p] EXCEPT !.todosJson = marked.value], "markWrite"))
    /\ UNCHANGED <<languageId, doc, cursor, fs, clock, started>>

\* markTodoAsDone writes the whole document back (the write may throw)
MarkWrite(p) ==
    /\ cmd[p].pc = "markWrite"
    /\ \E ioOk \in BOOLEAN :
        IF ioOk
        THEN /\ fs' = [fs EXCEPT !.file = JsonStringify(cmd[p].todosJson)]
             /\ Step(p, Finish(Note(cmd[p], InfoMarked)))
        ELSE /\ UNCHANGED fs
             /\ Step(p, Finish(Note(Note(cmd[p], ErrMarking), InfoMarked)))
    /\ UNCHANGED <<languageId, doc, cursor, clock, started>>

(***************************************************************************)
(* TodoManager.searchTodosFile                                             *)
(***************************************************************************)
\* read the entries of the active file, build the items, show the picker
SearchRead(p) ==
    /\ cmd[p].pc = "ready" /\ cmd[p].kind = "search"
    /\ \E ioOk \in BOOLEAN :
        LET read == IF ioOk THEN readJson(fs.file) ELSE Throws
            todosInFile == getTodosInFile(read, cmd[p].file)
            c0 == [cmd[p] EXCEPT !.todosInFile = todosInFile,
                                 !.items = getTodosQuickPickItems(todosInFile)]
        IN  Step(p, Goto(IF todosInFile = <<>> THEN Note(c0, InfoNoTodos) ELSE c0, "picker"))
    /\ UNCHANGED <<languageId, doc, cursor, fs, clock, started>>

\* the host keeps a selection inside the document
Clamp(lines, line) == IF line > Len(lines) - 1 THEN Len(lines) - 1 ELSE line

\* onDidChangeSelection: move the cursor to the item's line, hide the picker
PickerSelect(p, i) ==
    /\ cmd[p].pc = "picker"
    /\ i \in 1..Len(cmd[p].items)
    /\ cursor' = [cursor EXCEPT ![cmd[p].file] = Clamp(doc[cmd[p].file], cmd[p].items[i].line)]
    /\ Step(p, Finish([cmd[p] EXCEPT !.selected = i]))
    /\ UNCHANGED <<languageId, doc, fs, clock, started>>

\* the user dismisses the picker
PickerHide(p) ==
    /\ cmd[p].pc = "picker"
    /\ Step(p, Finish(cmd[p]))
    /\ UNCHANGED <<languageId, doc, cursor, fs, clock, started>>

(***************************************************************************)
(* Specification                                                           *)
(***************************************************************************)
Steps ==
    \/ \E f \in File, line \in 0..3 : MoveCursor(f, line)
    \/ Tick
    \/ \E p \in Slot : StatFolder(p)
    \/ \E p \in Slot : CreateDirectory(p)
    \/ \E p \in Slot : StatJson(p)
    \/ \E p \in Slot : WriteSeed(p)
    \/ \E p \in Slot : CreateParse(p)
    \/ \E p \in Slot : AddRead(p)
    \/ \E p \in Slot : AddWrite(p)
    \/ \E p \in Slot : CompleteParse(p)
    \/ \E p \in Slot : ExistsRead(p)
    \/ \E p \in Slot : RemoveTodoLine(p)
    \/ \E p \in Slot : MarkRead(p)
    \/ \E p \in Slot : MarkWrite(p)
    \/ \E p \in Slot : SearchRead(p)
    \/ \E p \in Slot, i \in 1..3 : PickerSelect(p, i)
    \/ \E p \in Slot : PickerHide(p)

Next ==
    \/ \E p \in Slot, kind \in Kind, f \in File : Start(p, kind, f)
    \/ Steps

Spec == Init /\ [][Next]_vars

\* the user triggers a command only when none is in flight
StartSeq(p, kind, f) == Start(p, kind, f) /\ \A q \in Slot : Free(q)

NextSeq ==
    \/ \E p \in Slot, kind \in Kind, f \in File : StartSeq(p, kind, f)
    \/ Steps

SpecSeq == InitAll /\ [][NextSeq]_vars

SpecDup == InitDup /\ [][NextSeq]_vars

(***************************************************************************)
(* Properties                                                              *)
(***************************************************************************)
\* the todos sequence of the log document ([] when there is none to read)
TodosOf(file) ==
    IF file = Absent \/ ~file.json \/ ~Has(file.value, "todos") THEN <<>>
    ELSE file.value.todos

\* the stored entries under (filePath, huid), in the order of the sequence
EntriesAt(file, filePath, huid) ==
    LET todos == TodosOf(file)
        hits  == SelectSeq([i \in 1..Len(todos) |-> i],
                           LAMBDA i : Has(todos[i], filePath) /\ Has(todos[i][filePath], huid))
    IN  [k \in 1..Len(hits) |-> todos[hits[k]][filePath][huid]]

\* the comment markers, as the documentation of the table gives them
ExpectedMarker ==
    [javascript |-> <<"/", "/">>, python |-> <<"#">>, html |-> <<"<", "!", "-", "-">>,
     css |-> <<"/", "*">>, sql |-> <<"-", "-">>, ini |-> <<";">>,
     bat |-> <<"R", "E", "M">>, plaintext |-> <<"/", "/">>]

\* the identifier of the first instant of Times: 2025-12-08 16:15:30
Uid1530 == <<"2","0","2","5","1","2","0","8","-","1","6","1","5","3","0">>

\* the command in slot p has left the step it was waiting at
Moves(p) == cmd'[p].pc # cmd[p].pc

\* C1: Create on a cursor line that parses as a TODO without identifier
\* replaces the whole line by "<marker> TODO<id>: <heading>", id being the
\* generator's output and the marker that of the document's language, and
\* when the command ends (without an error report) the log holds an entry
\* under (file path, id) with that heading, done=false, line = cursor + 1.
C1_CreateAssignsIdentifier ==
    [][\A p \in Slot :
        LET c == cmd[p]
            f == c.file
            line == cursor[f]
            parsed == parseTodoAtLine(languageId[f], doc[f][line + 1])
            huid == getGeneratedHUID(Now)
        IN  /\ (/\ c.pc = "ready" /\ c.kind = "create"
                /\ parsed # Null /\ ~parsed.hasUID
                /\ cmd'[p].edited = "true")
               => /\ doc' = [doc EXCEPT ![f][line + 1] =
                        ExpectedMarker[languageId[f]] \o <<" ", "T", "O", "D", "O", "<">>
                            \o huid \o <<">", ":", " ">> \o parsed.heading]
                  /\ cmd'[p].huid = huid
                  /\ cmd'[p].heading = parsed.heading
                  /\ cmd'[p].currentLine = line
            /\ (c.pc = "addWrite" /\ cmd'[p].pc = "done" /\ cmd'[p].notes = <<InfoAdded>>)
               => \E i \in 1..Len(EntriesAt(fs'.file, f, c.huid)) :
                    LET e == EntriesAt(fs'.file, f, c.huid)[i]
                    IN  /\ e.heading = c.heading
                        /\ e.done = FALSE
                        /\ e.line = c.currentLine + 1
    ]_vars

\* C1 witness: in a Python document "# TODO: fa " has become
\* "# TODO<20251208-161530>: fa" and the log holds the entry
C1_Witness ==
    \E p \in Slot :
        /\ cmd[p].kind = "create" /\ cmd[p].pc = "done" /\ cmd[p].notes = <<InfoAdded>>
        /\ cmd[p].file = "f1" /\ languageId["f1"] = "python"
        /\ doc["f1"][1] = <<"#", " ", "T", "O", "D", "O", "<">> \o Uid1530 \o <<">", ":", " ", "f", "a">>
        /\ Len(EntriesAt(fs.file, "f1", Uid1530)) = 1
        /\ EntriesAt(fs.file, "f1", Uid1530)[1].line = 1

\* C2: Create on a line that already carries an identifier changes neither
\* the document nor the log, and reports the identifier, each time it is run.
C2_CreateOnIdentifiedLineIsNoOp ==
    [][\A p \in Slot :
        LET c == cmd[p]
            f == c.file
            parsed == parseTodoAtLine(languageId[f], doc[f][cursor[f] + 1])
        IN  (/\ c.pc = "ready" /\ c.kind = "create" /\ Moves(p)
             /\ parsed # Null /\ parsed.hasUID)
            => /\ doc' = doc
               /\ fs' = fs
               /\ cmd'[p].pc = "done"
               /\ cmd'[p].notes = <<InfoHasHuid>>
               /\ cmd'[p].huid = parsed.existingUID
    ]_vars

\* C2 witness: Create run again on the line an earlier Create rewrote
C2_Witness ==
    \E p \in Slot :
        /\ cmd[p].kind = "create" /\ cmd[p].pc = "done"
        /\ cmd[p].notes = <<InfoHasHuid>> /\ cmd[p].huid = Uid1530
        /\ started = 2

\* C3: Complete on a line whose identifier has an entry in the log for the
\* active file deletes that line and leaves the entry of (filePath,
\* identifier) with done=true and a non-null markedAt.
C3_CompleteMarksDone ==
    \A p \in Slot :
        LET c == cmd[p]
            lines == c.before.doc[c.file]
        IN  (/\ c.kind = "complete" /\ c.pc = "done"
             /\ c.notes = <<InfoMarked>> /\ c.edited = "true")
            => /\ doc[c.file] = DeleteLine(lines, c.currentLine)
               /\ Len(EntriesAt(fs.file, c.file, c.huid)) >= 1
               /\ EntriesAt(fs.file, c.file, c.huid)[1].done = TRUE
               /\ Has(EntriesAt(fs.file, c.file, c.huid)[1], "markedAt")
               /\ EntriesAt(fs.file, c.file, c.huid)[1].markedAt # Null

\* C4: Complete on a line whose identifier has no entry in the log under the
\* active file path aborts before any edit: no line is deleted and the log
\* document is not modified.
C4_CompleteUnknownIdentifierAborts ==
    [][\A p \in Slot :
        LET c == cmd[p]
        IN  (/\ c.pc = "existsRead" /\ Moves(p)
             /\ Len(EntriesAt(fs.file, c.file, c.huid)) = 0)
            => /\ doc' = doc
               /\ fs' = fs
               /\ cmd'[p].pc = "done"
               /\ cmd'[p].notes = <<ErrNotFound>>
               /\ cmd'[p].edited = "unset"
    ]_vars

\* C4 witness: the identifier of the second line was never logged in this
\* workspace; Complete has reported it and the line is still there
C4_Witness ==
    \E p \in Slot :
        /\ cmd[p].kind = "complete" /\ cmd[p].pc = "done"
        /\ cmd[p].notes = <<ErrNotFound>> /\ cmd[p].huid = OldUid
        /\ fs.file = SeedText
        /\ doc["f1"] = DocFor(languageId["f1"])

\* C5: in Complete, if the editor reports that deleting the line failed,
\* markDone is not called and the log is left as it was.
C5_FailedRemovalSkipsMarkDone ==
    \A p \in Slot :
        (cmd[p].kind = "complete" /\ cmd[p].edited = "false")
        => /\ cmd[p].pc \notin {"markRead", "markWrite"}
           /\ cmd[p].todosJson = Undefined
           /\ TodosOf(fs.file) = TodosOf(cmd[p].before.fs.file)

\* C6: in Create, if the editor reports that replacing the line failed, the
\* command ends with an error report and addEntry is never called, so the
\* log document is unchanged.
C6_FailedUpdateSkipsAddEntry ==
    [][\A p \in Slot :
        (/\ cmd[p].pc = "ready" /\ cmd[p].kind = "create"
         /\ cmd'[p].edited = "false")
        => /\ cmd'[p].pc = "done"
           /\ cmd'[p].notes = <<ErrUpdate>>
           /\ cmd'[p].todosJson = Undefined
           /\ fs' = fs
           /\ doc' = doc
    ]_vars

\* C6 witness: a Create whose edit was refused has ended with the error
C6_Witness ==
    \E p \in Slot :
        /\ cmd[p].kind = "create" /\ cmd[p].pc = "done"
        /\ cmd[p].edited = "false" /\ cmd[p].notes = <<ErrUpdate>>
        /\ cmd[p].huid = Uid1530

\* a command that ended on a no-match error
NoMatchEnd(c) ==
    /\ c.pc = "done"
    /\ \/ c.kind \in {"create", "complete"} /\ c.notes = <<ErrNoTodo>>
       \/ c.kind = "complete" /\ c.notes = <<ErrNoHuid>>

\* C7 as stated: a command that ends on a no-match error leaves the document
\* text and the workspace storage (the .todos folder, the log document) as
\* they were before the command.
C7_NoMatchChangesNothing ==
    \A p \in Slot :
        NoMatchEnd(cmd[p]) => doc = cmd[p].before.doc /\ fs = cmd[p].before.fs

\* C7 amended: such a command leaves the document text as it was, and the
\* storage too but for what resolving the log location creates: the .todos
\* folder if it was missing and an empty log if there was none.
C7_NoMatchOnlyCreatesStorage ==
    \A p \in Slot :
        NoMatchEnd(cmd[p])
        => /\ doc = cmd[p].before.doc
           /\ fs.folder
           /\ fs.file = IF cmd[p].before.fs.file = Absent THEN SeedText
                        ELSE cmd[p].before.fs.file

\* C7 witness: a no-match command run in a workspace never used before
C7_Witness ==
    \E p \in Slot :
        /\ NoMatchEnd(cmd[p])
        /\ cmd[p].before.fs = Fresh
        /\ fs = Seeded

\* a Create that ended having written the log, with no error reported
AddedOk(c) == c.kind = "create" /\ c.pc = "done" /\ c.notes = <<InfoAdded>>

\* the document a command wrote holds an entry under (filePath, huid)
Wrote(c, filePath, huid) ==
    Len(EntriesAt(JsonStringify(c.todosJson), filePath, huid)) > 0

\* C8: two commands that interleave their read-modify-write cycles on the
\* log lose the first writer's entry: when two Creates have both ended
\* without error, each having read the log before the other wrote it, the
\* log holds the entry of exactly one of them.
C8_InterleavedCreatesLoseAnEntry ==
    \A p, q \in Slot :
        (/\ p # q /\ AddedOk(cmd[p]) /\ AddedOk(cmd[q])
         /\ ~Wrote(cmd[p], cmd[q].file, cmd[q].huid)
         /\ ~Wrote(cmd[q], cmd[p].file, cmd[p].huid))
        => (Len(EntriesAt(fs.file, cmd[p].file, cmd[p].huid)) = 0)
           # (Len(EntriesAt(fs.file, cmd[q].file, cmd[q].huid)) = 0)

\* C8 witness: two Creates in different files have both ended without error
\* and the log holds the entry of one of them only
C8_Witness ==
    \E p, q \in Slot :
        /\ p # q /\ AddedOk(cmd[p]) /\ AddedOk(cmd[q])
        /\ cmd[p].file # cmd[q].file
        /\ Len(EntriesAt(fs.file, cmd[p].file, cmd[p].huid)) = 0
        /\ Len(EntriesAt(fs.file, cmd[q].file, cmd[q].huid)) = 1

\* C9: the log only grows when commands run one after the other: no step
\* shortens the todos sequence or takes a file path or an identifier out of
\* one of its elements.
C9_LogOnlyGrows ==
    [][LET old == TodosOf(fs.file)
           new == TodosOf(fs'.file)
       IN  /\ Len(old) <= Len(new)
           /\ \A i \in 1..Len(old) :
                /\ DOMAIN new[i] = DOMAIN old[i]
                /\ \A f \in DOMAIN old[i] : DOMAIN new[i][f] = DOMAIN old[i][f]
    ]_vars

\* C9 witness: the entry of an earlier session, completed after another
\* entry was added, is still in the log
C9_Witness ==
    \E p \in Slot :
        /\ cmd[p].kind = "complete" /\ cmd[p].pc = "done" /\ cmd[p].notes = <<InfoMarked>>
        /\ Len(TodosOf(fs.file)) = 2
        /\ EntriesAt(fs.file, "f1", OldUid)[1].done = TRUE

\* the entries the round trip is tried on
SampleEntry ==
    [huid : {Uid1530, OldUid}, heading : {HeadA}, filePath : File,
     line : {1}, done : BOOLEAN, createdAt : {Times[1]}]
    \cup
    [huid : {Uid1530, OldUid}, heading : {<<>>}, filePath : File,
     line : {3}, done : BOOLEAN, createdAt : {OldDay}]

\* C10: on any readable log, addEntry(e) followed by entriesForFile(e.filePath)
\* returns a sequence holding an item with e's identifier, heading, filePath,
\* done and createdAt, and with line = e.line - 1.
C10_AddThenListRoundTrip ==
    LET read == readJson(fs.file)
    IN  ~read.threw =>
        \A e \in SampleEntry :
            LET after == JsonStringify(addTodo(read.value, e))
                got   == getTodosInFile(readJson(after), e.filePath)
            IN  \E i \in 1..Len(got) :
                    /\ got[i].huid = e.huid
                    /\ got[i].heading = e.heading
                    /\ got[i].filePath = e.filePath
                    /\ got[i].done = e.done
                    /\ got[i].createdAt = e.createdAt
                    /\ got[i].line = e.line - 1

\* C10 witness: Search lists, one line lower, the entry a Create added
C10_Witness ==
    \E p \in Slot :
        /\ cmd[p].kind = "search" /\ cmd[p].pc = "picker"
        /\ \E i \in 1..Len(cmd[p].todosInFile) :
            /\ cmd[p].todosInFile[i].huid = Uid1530
            /\ cmd[p].todosInFile[i].heading = HeadA
            /\ cmd[p].todosInFile[i].line = 0
            /\ cmd[p].todosInFile[i].createdAt = Times[1]
            /\ ~cmd[p].todosInFile[i].done

\* C11: for a (filePath, id) pair that a readable log does not hold,
\* entryExists answers false, and it answers true on the log addEntry writes
\* for that pair.
C11_EntryExistsAfterAdd ==
    LET read == readJson(fs.file)
    IN  ~read.threw =>
        \A e \in SampleEntry :
            Len(EntriesAt(fs.file, e.filePath, e.huid)) = 0
            => /\ ~HuidExists(read, e.filePath, e.huid)
               /\ HuidExists(readJson(JsonStringify(addTodo(read.value, e))),
                             e.filePath, e.huid)

\* C11 witness: Complete has found in the log the identifier a Create of the
\* same session added to a log that was empty
C11_Witness ==
    \E p \in Slot :
        /\ cmd[p].kind = "complete" /\ cmd[p].pc = "remove"
        /\ cmd[p].huid = Uid1530
        /\ Len(TodosOf(fs.file)) = 1
        /\ Len(EntriesAt(fs.file, "f1", Uid1530)) = 1

\* C12: markDone on an entry leaves done=true however often it is called,
\* and each call leaves the entry's markedAt equal to the time of that call.
C12_MarkDoneStampsMarkedAt ==
    LET read == readJson(fs.file)
    IN  (~read.threw /\ Has(read.value, "todos")) =>
        \A f \in File, h \in {OldUid, Uid1530} :
            Len(EntriesAt(fs.file, f, h)) > 0 =>
                LET once  == JsonStringify(markTodoAsDone(read.value, f, h, Times[1]).value)
                    twice == JsonStringify(markTodoAsDone(readJson(once).value, f, h, Times[2]).value)
                    e1 == EntriesAt(once, f, h)[1]
                    e2 == EntriesAt(twice, f, h)[1]
                IN  /\ e1.done /\ e2.done
                    /\ e1.markedAt = ToISOString(Times[1])
                    /\ e2.markedAt = ToISOString(Times[2])

\* C13: for every language of the table, parsing the line a successful
\* Create wrote gives a TODO that has an identifier, the identifier Create
\* generated, and the heading Create used.
C13_ParseOfCreatedLine ==
    [][\A p \in Slot :
        LET c == cmd[p]
            f == c.file
            line == cursor[f]
        IN  (/\ c.pc = "ready" /\ c.kind = "create"
             /\ cmd'[p].edited = "true"
             /\ languageId[f] \in DOMAIN commentMap)
            => LET again == parseTodoAtLine(languageId[f], doc'[f][line + 1])
               IN  /\ again # Null
                   /\ again.hasUID
                   /\ again.existingUID = cmd'[p].huid
                   /\ again.heading = cmd'[p].heading
    ]_vars

\* the line has the documented form with the marker taken literally:
\* blanks, marker, blanks, TODO, an optional <identifier>, a colon
LiteralForm(marker, lineText) ==
    LET a == SkipWs(lineText, 1)
        b == SkipWs(lineText, a + Len(marker))
        t == b + 4
        colon == IF At(lineText, t) = "<" /\ IsHuidAt(lineText, t + 1) /\ At(lineText, t + 16) = ">"
                 THEN t + 17 ELSE t
    IN  /\ HasAt(lineText, a, marker)
        /\ HasAt(lineText, b, Todo4)
        /\ At(lineText, colon) = ":"

\* C14: a cursor line that is not of the documented form, with the comment
\* marker of the document's language taken literally, is not recognised:
\* Create and Complete end on it with the "No TODO found" error.
C14_ParserRejectsOtherLines ==
    [][\A p \in Slot :
        LET c == cmd[p]
            f == c.file
        IN  (/\ c.pc = "ready" /\ c.kind \in {"create", "complete"} /\ Moves(p)
             /\ ~LiteralForm(ExpectedMarker[languageId[f]], doc[f][cursor[f] + 1]))
            => /\ cmd'[p].pc = "done"
               /\ cmd'[p].notes = <<ErrNoTodo>>
    ]_vars

\* the log document cannot be read or is not JSON
Unreadable(file) == file = Absent \/ ~file.json

\* C15: when the read (or the parse) at the start of addEntry or of markDone
\* fails, the operation reports the failure, writes nothing and ends, and
\* the log document is what it was before.
C15_FailedReadSkipsWrite ==
    [][\A p \in Slot :
        LET c == cmd[p]
            failed == Unreadable(fs.file) \/ cmd'[p].todosJson = Undefined
        IN  /\ (c.pc = "addRead" /\ Moves(p) /\ failed)
               => /\ cmd'[p].notes = c.notes \o <<InfoAdded, ErrWriting>>
                  /\ cmd'[p].pc = "done"
                  /\ cmd'[p].todosJson = Undefined
                  /\ fs' = fs
            /\ (c.pc = "markRead" /\ Moves(p) /\ failed)
               => /\ cmd'[p].notes = c.notes \o <<ErrMarking, InfoMarked>>
                  /\ cmd'[p].pc = "done"
                  /\ cmd'[p].todosJson = Undefined
                  /\ fs' = fs
    ]_vars

\* C15 witness: a Create whose addEntry met a log that is not JSON has ended
\* with the error, and the log is as it was
C15_Witness ==
    \E p \in Slot :
        /\ cmd[p].kind = "create" /\ cmd[p].pc = "done"
        /\ cmd[p].notes = <<InfoAdded, ErrWriting>>
        /\ cmd[p].todosJson = Undefined
        /\ cmd[p].before.fs = Broken /\ fs = Broken

\* C16: whatever step of a command fails, the command ends in a handled
\* state: no handler is ever left with an error nothing caught (a rejected
\* promise that no one awaits and no notification reports).
C16_EveryFailureIsHandled ==
    \A p \in Slot : cmd[p].pc # "crashed"

\* the entries the log holds for filePath, in the order of the sequence
\* (every element the program writes groups one identifier under one path)
FileEntries(file, filePath) ==
    LET todos == TodosOf(file)
        hits  == SelectSeq([i \in 1..Len(todos) |-> i], LAMBDA i : Has(todos[i], filePath))
    IN  [k \in 1..Len(hits) |->
            LET g == todos[hits[k]][filePath]
                h == CHOOSE x \in DOMAIN g : TRUE
            IN  [huid |-> h, entry |-> g[h]]]

\* the picker items show the entries of the log for the file, one each, in
\* order, labelled done or pending, pointing at the stored line minus one
ItemsShow(items, entries) ==
    /\ Len(items) = Len(entries)
    /\ \A k \in 1..Len(items) :
        /\ items[k].label = <<IF entries[k].entry.done THEN "check" ELSE "circle-outline",
                               entries[k].entry.heading>>
        /\ items[k].description = entries[k].huid
        /\ items[k].line = entries[k].entry.line - 1

\* Search lists what the log holds (or nothing, when its read failed), and
\* a selection ends the command
SearchLists(p) ==
    LET c == cmd[p]
        f == c.file
    IN  /\ (c.pc = "ready" /\ c.kind = "search" /\ Moves(p))
           => /\ cmd'[p].pc = "picker"
              /\ \/ cmd'[p].items = <<>>
                 \/ ItemsShow(cmd'[p].items, FileEntries(fs.file, f))
        /\ (c.pc = "picker" /\ cmd'[p].selected # 0)
           => /\ cmd'[p].pc = "done"
              /\ cmd'[p].selected \in 1..Len(c.items)

C18_EmptySearchShowsNoPicker ==
    \A p \in Slot :
        (cmd[p].kind = "search" /\ cmd[p].todosInFile = <<>>)
        => /\ cmd[p].pc # "picker"
           /\ cmd[p].pc = "done" => cmd[p].notes = <<InfoNoTodos>>

\* C19: resolving the log location writes the seed only where there is no
\* log: the step never changes a log document that exists, however the
\* initialisations of two commands interleave.
C19_SeedNeverReplacesALog ==
    [][\A p \in Slot :
        (cmd[p].pc = "seed" /\ fs'.file # fs.file) => fs.file = Absent
    ]_vars

\* C20: the read-only queries write nothing and always answer: with a log
\* that cannot be read or parsed, entryExists answers false (Complete ends
\* with "not found") and entriesForFile answers the empty sequence.
C20_QueriesNeverFailNorWrite ==
    [][\A p \in Slot :
        LET c == cmd[p]
        IN  /\ (c.pc = "existsRead" /\ Moves(p))
               => /\ fs' = fs /\ doc' = doc
                  /\ cmd'[p].pc \in {"done", "remove"}
                  /\ Unreadable(fs.file)
                     => cmd'[p].pc = "done" /\ cmd'[p].notes = <<ErrNotFound>>
            /\ (c.pc = "ready" /\ c.kind = "search" /\ Moves(p))
               => /\ fs' = fs /\ doc' = doc
                  /\ cmd'[p].pc = "picker"
                  /\ Unreadable(fs.file) => cmd'[p].todosInFile = <<>>
    ]_vars

\* C20 witness: with a log that is not JSON, Complete on the identified line
\* has ended with "not found", the line and the log as they were
C20_Witness ==
    \E p \in Slot :
        /\ cmd[p].kind = "complete" /\ cmd[p].pc = "done"
        /\ cmd[p].notes = <<ErrNotFound>> /\ cmd[p].huid = OldUid
        /\ cmd[p].before.fs = Broken /\ fs = Broken
        /\ doc["f1"] = cmd[p].before.doc["f1"]

\* C21: addEntry checks for no duplicate: called twice with the same entry
\* on a readable log, it leaves the todos sequence two elements longer, the
\* earlier elements as they were, and the two new elements each a grouping
\* of the one file path over the one identifier.
C21_AddTwiceAppendsTwo ==
    LET read == readJson(fs.file)
    IN  ~read.threw =>
        \A e \in SampleEntry :
            LET old   == TodosOf(fs.file)
                once  == JsonStringify(addTodo(read.value, e))
                twice == JsonStringify(addTodo(readJson(once).value, e))
                new   == TodosOf(twice)
                n     == Len(old)
            IN  /\ Len(new) = n + 2
                /\ SubSeq(new, 1, n) = old
                /\ \A i \in {n + 1, n + 2} :
                    /\ DOMAIN new[i] = {e.filePath}
                    /\ DOMAIN new[i][e.filePath] = {e.huid}
                    /\ new[i][e.filePath][e.huid].heading = e.heading
                    /\ new[i][e.filePath][e.huid].line = e.line

\* C21 witness: two Creates of one second on two lines of the first file;
\* the log holds two elements under that file and identifier
C21_Witness ==
    \E p \in Slot :
        /\ AddedOk(cmd[p]) /\ cmd[p].huid = Uid1530 /\ cmd[p].file = "f1"
        /\ Len(EntriesAt(fs.file, "f1", Uid1530)) = 2
        /\ EntriesAt(fs.file, "f1", Uid1530)[1].line = 3
        /\ EntriesAt(fs.file, "f1", Uid1530)[2].line = 4

LangProbe ==
    DOMAIN commentMap \cup {"plaintext", "haskell", "", "constructor", "__proto__"}

\* C23: the lookup returns a non-empty marker for every language of the
\* table, and // for every identifier the table does not hold.
C23_LookupFallsBackToSlashes ==
    /\ \A l \in DOMAIN commentMap : getCommentSymbol(l) # <<>>
    /\ \A l \in LangProbe \ DOMAIN commentMap : getCommentSymbol(l) = <<"/", "/">>

\* instants the generator is tried on: the first and the last year of four
\* digits and the current one, with one-digit and two-digit months, days,
\* hours, minutes and seconds
TimeProbe ==
    [year : {1000, 2025, 9999}, month : {0, 9}, date : {1, 31},
     hours : {0, 23}, minutes : {5}, seconds : {9, 59}, ms : {0}]

\* C24: every identifier the generator produces is 8 digits, a hyphen and 6
\* digits, zero-padded, and the line parser reads it back from the line
\* Create writes with it.
C24_IdentifierForm ==
    /\ \A now \in TimeProbe \cup {Times[i] : i \in 1..Len(Times)} :
        LET id == getGeneratedHUID(now)
            parsed == parseTodoAtLine("javascript", NewLine("javascript", id, HeadA))
        IN  /\ Len(id) = 15
            /\ IsHuidAt(id, 1)
            /\ parsed # Null /\ parsed.hasUID /\ parsed.existingUID = id
    /\ getGeneratedHUID([year |-> 2026, month |-> 0, date |-> 5, hours |-> 3,
                          minutes |-> 4, seconds |-> 9, ms |-> 0])
         = <<"2","0","2","6","0","1","0","5","-","0","3","0","4","0","9">>
    /\ \A p \in Slot :
        (cmd[p].kind = "create" /\ cmd[p].edited # "unset")
        => Len(cmd[p].huid) = 15 /\ IsHuidAt(cmd[p].huid, 1)

\* C24 witness: Create has written the identifier of 2025-12-08 16:15:31
\* into the third line, and the parser reads it back from there
C24_Witness ==
    \E p \in Slot :
        /\ cmd[p].kind = "create" /\ cmd[p].edited = "true"
        /\ cmd[p].huid = getGeneratedHUID(Times[2])
        /\ parseTodoAtLine(languageId["f1"], doc["f1"][3]) # Null
        /\ parseTodoAtLine(languageId["f1"], doc["f1"][3]).existingUID
             = <<"2","0","2","5","1","2","0","8","-","1","6","1","5","3","1">>

\* the identifiers a log of these runs can hold
HuidProbe == {OldUid} \cup {getGeneratedHUID(Times[i]) : i \in 1..Len(Times)}

\* C25: done is monotone, however the commands interleave: an entry enters
\* the log with done=false, only a write of markDone turns done to true, and
\* an entry of the log that has done=true does not have done=false later.
C25_DoneIsMonotone ==
    [][\A f \in File, h \in HuidProbe :
        LET old == EntriesAt(fs.file, f, h)
            new == EntriesAt(fs'.file, f, h)
        IN  \A k \in 1..Len(new) :
                IF k <= Len(old)
                THEN /\ old[k].done => new[k].done
                     /\ (~old[k].done /\ new[k].done)
                        => \E p \in Slot : cmd[p].pc = "markWrite" /\ Moves(p)
                ELSE Len(old) = 0 => ~new[k].done
    ]_vars

\* C26: markDone for a pair the log holds changes one element of the
\* sequence, the first that holds the identifier under the path, and of its
\* entry only the done flag and the completion timestamp: heading, line and
\* createdAt of the entry, every other identifier, later elements with the
\* same pair and the elements of other paths are as they were.
C26_MarkDoneChangesOneEntry ==
    LET read == readJson(fs.file)
    IN  (~read.threw /\ Has(read.value, "todos")) =>
        \A f \in File, h \in HuidProbe :
            Len(EntriesAt(fs.file, f, h)) > 0 =>
                LET old   == TodosOf(fs.file)
                    new   == TodosOf(JsonStringify(markTodoAsDone(read.value, f, h, Now).value))
                    holds(i) == Has(old[i], f) /\ Has(old[i][f], h)
                    first == CHOOSE i \in 1..Len(old) :
                                holds(i) /\ \A j \in 1..(i - 1) : ~holds(j)
                    e     == old[first][f][h]
                    e2    == new[first][f][h]
                IN  /\ Len(new) = Len(old)
                    /\ \A i \in 1..Len(old) : i # first => new[i] = old[i]
                    /\ DOMAIN new[first] = DOMAIN old[first]
                    /\ \A g \in DOMAIN old[first] :
                        /\ DOMAIN new[first][g] = DOMAIN old[first][g]
                        /\ \A x \in DOMAIN old[first][g] :
                            (g # f \/ x # h) => new[first][g][x] = old[first][g][x]
                    /\ DOMAIN e2 = DOMAIN e \cup {"modifiedAt"}
                    /\ e2.done /\ e2.modifiedAt = ToISOString(Now)
                    /\ \A k \in DOMAIN e \ {"done", "modifiedAt"} : e2[k] = e[k]

\* C26 witness: of two elements under one path and identifier, Complete has
\* marked the first and left the second, and the first kept heading and line
C26_Witness ==
    \E p \in Slot :
        /\ cmd[p].kind = "complete" /\ cmd[p].pc = "done" /\ cmd[p].notes = <<InfoMarked>>
        /\ Len(EntriesAt(fs.file, "f1", OldUid)) = 2
        /\ EntriesAt(fs.file, "f1", OldUid)[1].done
        /\ EntriesAt(fs.file, "f1", OldUid)[1].heading = HeadA
        /\ EntriesAt(fs.file, "f1", OldUid)[1].line = 1
        /\ EntriesAt(fs.file, "f1", OldUid)[2] = EntriesAt(DupLogText, "f1", OldUid)[2]

\* C27: the line stored for an entry is the cursor's line plus one when the
\* entry is created, and no step of a command changes the stored line of an
\* entry the log already holds, also when Complete deletes a line above it.
C27_StoredLineIsNeverRewritten ==
    [][/\ \A f \in File, h \in HuidProbe :
            LET old == EntriesAt(fs.file, f, h)
                new == EntriesAt(fs'.file, f, h)
            IN  \A k \in 1..Len(old) :
                    k <= Len(new) /\ new[k].line = old[k].line
       /\ \A p \in Slot :
            (cmd[p].pc = "addWrite" /\ fs'.file # fs.file)
            => LET added == TodosOf(fs'.file)[Len(TodosOf(fs'.file))]
               IN  added[cmd[p].file][cmd[p].huid].line = cmd[p].currentLine + 1
    ]_vars

\* C27 witness: the entry was recorded on line 3; Complete has deleted the
\* line above, the TODO is on line 2 now, and the log still says 3
C27_Witness ==
    \E p \in Slot :
        /\ cmd[p].kind = "complete" /\ cmd[p].pc = "done" /\ cmd[p].notes = <<InfoMarked>>
        /\ Len(doc["f1"]) = 3
        /\ parseTodoAtLine(languageId["f1"], doc["f1"][2]) # Null
        /\ parseTodoAtLine(languageId["f1"], doc["f1"][2]).existingUID = Uid1530
        /\ Len(EntriesAt(fs.file, "f1", Uid1530)) = 1
        /\ EntriesAt(fs.file, "f1", Uid1530)[1].line = 3

\* C28: the line a Complete deletes is, at the moment it is deleted, the
\* line that carries the identifier this Complete parsed and found in the
\* log, however the commands on the document interleave; no other line of
\* the document goes.
C28_CompleteDeletesTheLineItChecked ==
    [][\A p \in Slot :
        LET c == cmd[p]
            f == c.file
        IN  (c.pc = "remove" /\ Moves(p) /\ doc' # doc)
            => LET parsed == parseTodoAtLine(languageId[f], doc[f][c.currentLine + 1])
               IN  /\ parsed # Null
                   /\ parsed.hasUID
                   /\ parsed.existingUID = c.huid
                   /\ doc'[f] = DeleteLine(doc[f], c.currentLine)
    ]_vars

\* some line of the document of f carries the identifier h
Carries(f, h) ==
    \E i \in 1..Len(doc[f]) :
        LET parsed == parseTodoAtLine(languageId[f], doc[f][i])
        IN  parsed # Null /\ parsed.hasUID /\ parsed.existingUID = h

\* C29: once Complete has removed every line of a file that carried an
\* identifier (the last of them just now, with no error, an earlier one
\* having recorded its completion in the log), no entry of the log under
\* that file and identifier has done=false, also when two lines carried the
\* same identifier.
C29_RemovedEverywhereMeansDone ==
    \A p \in Slot :
        LET c == cmd[p]
        IN  (/\ c.kind = "complete" /\ c.pc = "done"
             /\ c.notes = <<InfoMarked>> /\ c.edited = "true"
             /\ \A q \in Slot : Free(q)
             /\ ~Carries(c.file, c.huid)
             /\ \E k \in 1..Len(EntriesAt(c.before.fs.file, c.file, c.huid)) :
                    EntriesAt(c.before.fs.file, c.file, c.huid)[k].done)
            => \A k \in 1..Len(EntriesAt(fs.file, c.file, c.huid)) :
                    EntriesAt(fs.file, c.file, c.huid)[k].done

\* C30: whenever no command is in flight, the line to which the last Create
\* wrote an identifier, if it still carries that identifier, has an entry
\* under (its file, that identifier) in the log, also when the read or the
\* write of the log inside addTodo failed after the line was rewritten.
C30_RewrittenLineHasEntry ==
    \A p \in Slot :
        LET c == cmd[p]
            f == c.file
        IN  (/\ c.kind = "create" /\ c.pc = "done" /\ c.edited = "true"
             /\ \A q \in Slot : Free(q)
             /\ c.currentLine + 1 \in 1..Len(doc[f])
             /\ LET parsed == parseTodoAtLine(languageId[f], doc[f][c.currentLine + 1])
                IN  parsed # Null /\ parsed.hasUID /\ parsed.existingUID = c.huid)
            => Len(EntriesAt(fs.file, f, c.huid)) > 0

====
